---- MODULE Spec2Model ----
(***************************************************************************)
(* Odometry estimator (appa::Odom) and motion executor (appa::Chassis) of  *)
(* the dom / appa robot library, as a state machine of threads.            *)
(*                                                                         *)
(* Units.  Angles are counted in quarter turns, so M_PI is 2 and M_PI_2 is *)
(* 1, and Point::rotate is exact on the integer lattice.  Lengths are      *)
(* counted in thousandths of a tracking-wheel unit, so that the arc-chord  *)
(* factor 2*sin(dtheta/2)/dtheta, kept in thousandths, multiplies them     *)
(* without rounding.  A double that is NaN is the value NaN below, and the *)
(* arithmetic helpers propagate it as IEEE arithmetic does.                *)
(***************************************************************************)
EXTENDS Integers, Sequences, FiniteSets, TLC

\* ---------------------------------------------------------------- bounds
\* number of events of a run: library calls by the user threads, tracking-wheel
\* units travelled and quarter turns made by the robot
MaxEvents == 3

\* ------------------------------------------------------------- constants
\* the not-a-number sentinel of an unspecified axis (std::isnan)
NaN == 99999
\* one tracking-wheel unit, in thousandths
Unit == 1000
\* M_PI in quarter turns
M_PI == 2

M_PI_2 == 1
\* tracker_angular_offset as constructed (to_rad of the constructor argument)
tracker_angular_offset == 0

\* ------------------------------------------------------------ arithmetic
isnan(v) == v = NaN

fadd(a, b) == IF isnan(a) \/ isnan(b) THEN NaN ELSE a + b

fsub(a, b) == IF isnan(a) \/ isnan(b) THEN NaN ELSE a - b

abs(v) == IF v < 0 THEN -v ELSE v

\* 1000 * 2*sin(d/2)/d for d quarter turns, d # 0 (the factor is even in d)
ArcFactor(d) ==
    IF isnan(d) THEN NaN
    ELSE CASE abs(d) = 1 -> 900
           [] abs(d) = 2 -> 637
           [] abs(d) = 3 -> 300
           [] abs(d) = 4 -> 0
           [] abs(d) = 5 -> -180
           [] abs(d) = 6 -> -212
           [] abs(d) = 7 -> -129
           [] OTHER -> 0

\* v * f / 1000, exact on whole tracking-wheel units
fscale(v, f) == IF isnan(v) \/ isnan(f) THEN NaN ELSE (v * f) \div Unit

\* Point::rotate: counter-clockwise by theta quarter turns
rotate(p, theta) ==
    IF isnan(theta) THEN [x |-> NaN, y |-> NaN]
    ELSE CASE theta % 4 = 0 -> [x |-> p.x, y |-> p.y]
           [] theta % 4 = 1 -> [x |-> fsub(0, p.y), y |-> p.x]
           [] theta % 4 = 2 -> [x |-> fsub(0, p.x), y |-> fsub(0, p.y)]
           [] OTHER -> [x |-> p.y, y |-> fsub(0, p.x)]

\* Pose operator+(Point) and operator-(Point): the heading is kept
PosePlus(pose, p) == [x |-> fadd(pose.x, p.x), y |-> fadd(pose.y, p.y), theta |-> pose.theta]

PoseMinus(pose, p) == [x |-> fsub(pose.x, p.x), y |-> fsub(pose.y, p.y), theta |-> pose.theta]

\* ----------------------------------------------------------------- threads
\* the user threads that call into the library
Callers == {1, 2}

\* the user thread that sets up and uses the odometry
OdomCallers == {1}

Caller(c) == <<"caller", c>>

OdomThread == <<"odom_task", 0>>

CallerThreads == {Caller(c) : c \in Callers}

\* the motion tasks Chassis::move and Chassis::turn create, in order of creation
MotionIds == 1..MaxEvents

Motion(t) == <<"chassis_task", t>>

MotionThreads == {Motion(t) : t \in MotionIds}

Threads == CallerThreads \cup {OdomThread} \cup MotionThreads

\* a mutex nobody holds
Free == <<"free", 0>>

\* a null task handle
nullptr == 0

ZeroPose == [x |-> 0, y |-> 0, theta |-> 0]

NoPose == [x |-> NaN, y |-> NaN, theta |-> NaN]

\* ------------------------------------------------------------------ inputs
XArgs == {NaN, Unit}

YArgs == {NaN, 0}

\* 3 quarter turns lies outside (-M_PI, M_PI]
ThetaArgs == {NaN, 1, 3}

PoseArgs ==
    {[x |-> 0, y |-> 0, theta |-> 1], [x |-> Unit, y |-> 0, theta |-> 3],
     [x |-> NaN, y |-> 0, theta |-> NaN], [x |-> Unit, y |-> NaN, theta |-> 1]}

Offsets == {[x |-> 0, y |-> 0], [x |-> Unit, y |-> 0]}

VARIABLES
    odom_pose,              \* Odom::odom_pose, the shared pose
    tracker_linear_offset,  \* Odom::tracker_linear_offset
    imu,                    \* what imu.get() reads, as to_rad gives it
    x_tracker, y_tracker,   \* what the encoders read, divided by tpu
    odom_task,              \* Odom::odom_task: nullptr or the task created
    odom_tasks,             \* number of odometry tasks created so far
    odom_mutex,             \* Odom::odom_mutex: Free or the thread holding it
    prev_track, track, dtrack,  \* locals of Odom::task
    pc,                     \* where each thread is
    stk,                    \* each thread's return addresses
    loc,                    \* each thread's pose argument / local
    ret,                    \* the pose the thread's last get / get_local returned
    chassis_task,           \* Chassis::chassis_task: nullptr or the id of a motion task
    chassis_tasks,          \* number of motion tasks created so far
    deleted,                \* the motion tasks whose pros::Task object has been deleted
    chassis_mutex,          \* Chassis::chassis_mutex: Free or the thread holding it
    prev_speeds,            \* Chassis::prev_speeds
    motors,                 \* the last wheel command: left_motors, right_motors voltage / 120
    mv,                     \* each thread's locals of move_task / turn_task / tank
    uaf,                    \* history: a deleted task handle has been used
    events,                 \* number of calls, units travelled and quarter turns so far
    calib_failed,           \* history: some start() met a failed calibration
    last_set,               \* history: the set(p) nothing has disturbed since
    rotated                 \* history: the robot has rotated since its heading was set

vars == <<odom_pose, tracker_linear_offset, imu, x_tracker, y_tracker, odom_task,
          odom_tasks, odom_mutex, prev_track, track, dtrack, pc, stk, loc, ret,
          chassis_task, chassis_tasks, deleted, chassis_mutex, prev_speeds, motors, mv,
          uaf, events, calib_failed, last_set, rotated>>

sensors == <<imu, x_tracker, y_tracker>>

task_locals == <<prev_track, track, dtrack>>

odom_tasking == <<odom_task, odom_tasks>>

history == <<calib_failed, last_set, rotated>>

chassis_tasking == <<chassis_task, chassis_tasks, deleted, uaf>>

chassis == <<chassis_tasking, chassis_mutex, prev_speeds, motors, mv>>

odometry == <<odom_pose, tracker_linear_offset, sensors, odom_tasking, task_locals, history>>

NoSpeeds == [left |-> 0, right |-> 0]

\* the Options of a thread that runs no motion
NoOptions == [dir |-> "none", turn |-> "none", accel |-> 0, thru |-> FALSE,
              relative |-> FALSE]

\* the locals of a thread that runs no motion; error is also what the PIDs hold as
\* their previous error; first says that the loop has not yet run a tick
NoMotion == [motion |-> "none", target |-> 0, async |-> FALSE, timed |-> FALSE,
             opts |-> NoOptions, first |-> FALSE,
             error |-> [linear |-> 0, angular |-> 0], speeds |-> NoSpeeds]

NoSet == [by |-> Free, p |-> NoPose]

Init ==
    /\ odom_pose = ZeroPose
    /\ tracker_linear_offset = [x |-> 0, y |-> 0]
    /\ imu = 0
    /\ x_tracker = 0
    /\ y_tracker = 0
    /\ odom_task = nullptr
    /\ odom_tasks = 0
    /\ odom_mutex = Free
    /\ prev_track = ZeroPose
    /\ track = ZeroPose
    /\ dtrack = [x |-> 0, y |-> 0]
    /\ pc = [th \in Threads |-> IF th \in CallerThreads THEN "idle" ELSE "unborn"]
    /\ chassis_task = nullptr
    /\ chassis_tasks = 0
    /\ deleted = {}
    /\ chassis_mutex = Free
    /\ prev_speeds = NoSpeeds
    /\ motors = NoSpeeds
    /\ mv = [th \in Threads |-> NoMotion]
    /\ uaf = FALSE
    /\ stk = [th \in Threads |-> <<>>]
    /\ loc = [th \in Threads |-> NoPose]
    /\ ret = [th \in Threads |-> NoPose]
    /\ events = 0
    /\ calib_failed = FALSE
    /\ last_set = NoSet
    /\ rotated = FALSE

\* ------------------------------------------------------------ call / return
\* return from the current function to the address on top of the stack
\* (the callee's locals die; what it returned dies unless the caller uses it)
Return(th) ==
    /\ pc' = [pc EXCEPT ![th] = IF stk[th] = <<>> THEN "idle" ELSE Head(stk[th])]
    /\ stk' = [stk EXCEPT ![th] = IF stk[th] = <<>> THEN <<>> ELSE Tail(stk[th])]
    /\ loc' = [loc EXCEPT ![th] = NoPose]
    /\ ret' = [ret EXCEPT ![th] =
                  IF stk[th] = <<>> \/ Head(stk[th]) \in {"delay", "start_spawn"}
                  THEN NoPose
                  ELSE @]

Goto(th, l) == pc' = [pc EXCEPT ![th] = l]

\* an idle user thread enters a library function at l
Call(c, l) ==
    /\ pc[Caller(c)] = "idle"
    /\ events < MaxEvents
    /\ events' = events + 1
    /\ Goto(Caller(c), l)

\* where a thread that waits for odom_mutex continues once it has it
LockNext(l) ==
    CASE l = "take" -> "add"
      [] l = "get_lock" -> "get_body"
      [] l = "get_local_lock" -> "get_local_body"
      [] l = "set_lock" -> "set_body"
      [] l = "set_local_lock" -> "set_local_body"
      [] l = "set_x_lock" -> "set_x_body"
      [] l = "set_y_lock" -> "set_y_body"
      [] l = "set_theta_lock" -> "set_theta_body"
      [] l = "set_offset_lock" -> "set_offset_body"

LockPcs ==
    {"take", "get_lock", "get_local_lock", "set_lock", "set_local_lock", "set_x_lock",
     "set_y_lock", "set_theta_lock", "set_offset_lock"}

\* the places where a thread reads or writes odom_pose or tracker_linear_offset
BodyPcs ==
    {"add", "theta", "get_body", "get_local_body", "set_body", "set_local_body",
     "set_x_body", "set_y_body", "set_theta_body", "set_offset_body"}

\* the places where a thread gives odom_mutex back
UnlockPcs ==
    {"give", "get_unlock", "get_local_unlock", "set_unlock", "set_local_unlock",
     "set_x_unlock", "set_y_unlock", "set_theta_unlock", "set_offset_unlock"}

\* pros::Mutex::take / lock / std::lock_guard constructor on odom_mutex
odom_mutex_take(th) ==
    /\ pc[th] \in LockPcs
    /\ odom_mutex = Free
    /\ odom_mutex' = th
    /\ Goto(th, LockNext(pc[th]))
    /\ UNCHANGED <<odom_pose, tracker_linear_offset, sensors, odom_tasking, task_locals,
                   stk, loc, ret, history, events, chassis>>

\* pros::Mutex::give / unlock / std::lock_guard destructor on odom_mutex
odom_mutex_give(th) ==
    /\ pc[th] \in UnlockPcs
    /\ odom_mutex = th
    /\ odom_mutex' = Free
    /\ CASE pc[th] = "give" -> Goto(th, "debug") /\ UNCHANGED <<stk, loc, ret>>
         [] pc[th] = "set_unlock" -> Goto(th, "set_local_lock") /\ UNCHANGED <<stk, loc, ret>>
         [] OTHER -> Return(th)
    /\ UNCHANGED <<odom_pose, tracker_linear_offset, sensors, odom_tasking, task_locals,
                   history, events, chassis>>

\* ------------------------------------------------------------- Odom::task
\* lines 33-46: sample the sensors, difference them, arc approximation, rotation
odom_sample ==
    /\ pc[OdomThread] = "sample"
    /\ LET t == [x |-> x_tracker, y |-> y_tracker, theta |-> imu]
           d == [x |-> fsub(t.x, prev_track.x), y |-> fsub(t.y, prev_track.y)]
           dtheta == fsub(t.theta, prev_track.theta)
           arc == IF dtheta # 0
                  THEN [x |-> fscale(d.x, ArcFactor(dtheta)),
                        y |-> fscale(d.y, ArcFactor(dtheta))]
                  ELSE d
       IN /\ track' = t
          /\ prev_track' = t
          /\ dtrack' = rotate(arc, fadd(t.theta, tracker_angular_offset))
    /\ Goto(OdomThread, "take")
    /\ UNCHANGED <<odom_pose, tracker_linear_offset, sensors, odom_tasking, odom_mutex,
                   stk, loc, ret, history, events, chassis>>

\* line 50: odom_pose += dtrack
odom_add ==
    /\ pc[OdomThread] = "add"
    /\ odom_pose' = PosePlus(odom_pose, dtrack)
    /\ last_set' = NoSet
    /\ Goto(OdomThread, "theta")
    /\ UNCHANGED <<tracker_linear_offset, sensors, odom_tasking, odom_mutex, task_locals,
                   stk, loc, ret, calib_failed, events, rotated, chassis>>

\* line 51: odom_pose.theta = track.theta
odom_theta ==
    /\ pc[OdomThread] = "theta"
    /\ odom_pose' = [odom_pose EXCEPT !.theta = track.theta]
    /\ last_set' = NoSet
    /\ Goto(OdomThread, "give")
    /\ UNCHANGED <<tracker_linear_offset, sensors, odom_tasking, odom_mutex, task_locals,
                   stk, loc, ret, calib_failed, events, rotated, chassis>>

\* lines 55-60: every 20th tick, when debug is set, print get()
odom_debug ==
    /\ pc[OdomThread] = "debug"
    /\ \E print \in BOOLEAN :
          IF print
          THEN /\ Goto(OdomThread, "get_lock")
               /\ stk' = [stk EXCEPT ![OdomThread] = <<"delay">>]
          ELSE /\ Goto(OdomThread, "delay")
               /\ UNCHANGED stk
    /\ UNCHANGED <<odom_pose, tracker_linear_offset, sensors, odom_tasking, odom_mutex,
                   task_locals, loc, ret, history, events, chassis>>

\* line 63: pros::c::task_delay_until(&now, 5)
odom_delay ==
    /\ pc[OdomThread] = "delay"
    /\ Goto(OdomThread, "sample")
    /\ UNCHANGED <<odom_pose, tracker_linear_offset, sensors, odom_tasking, odom_mutex,
                   task_locals, stk, loc, ret, history, events, chassis>>

\* ------------------------------------------------------------ Odom::start
\* lines 68-69: imu.calibrate() blocks and reports success or failure
start_call(c) ==
    /\ \E calibrated \in BOOLEAN :
          Call(c, IF calibrated THEN "start_ok" ELSE "start_failed")
    /\ last_set' = NoSet
    /\ UNCHANGED <<odom_pose, tracker_linear_offset, sensors, odom_tasking, odom_mutex,
                   task_locals, stk, loc, ret, calib_failed, rotated, chassis>>

\* start() without the early return of line 71
start_failed_no_return(c) ==
    /\ pc[Caller(c)] = "start_failed"
    /\ calib_failed' = TRUE
    /\ loc' = [loc EXCEPT ![Caller(c)] = ZeroPose]
    /\ stk' = [stk EXCEPT ![Caller(c)] = <<"start_spawn">> \o @]
    /\ Goto(Caller(c), "set_lock")
    /\ UNCHANGED <<odom_pose, tracker_linear_offset, sensors, odom_tasking, odom_mutex,
                   task_locals, ret, last_set, events, rotated, chassis>>

\* lines 69-72: the calibration failed: report it and return
start_failed(c) ==
    /\ pc[Caller(c)] = "start_failed"
    /\ calib_failed' = TRUE
    /\ Return(Caller(c))
    /\ UNCHANGED <<odom_pose, tracker_linear_offset, sensors, odom_tasking, odom_mutex,
                   task_locals, last_set, events, rotated, chassis>>

\* line 75: set({0.0, 0.0, 0.0})
start_ok(c) ==
    /\ pc[Caller(c)] = "start_ok"
    /\ loc' = [loc EXCEPT ![Caller(c)] = ZeroPose]
    /\ stk' = [stk EXCEPT ![Caller(c)] = <<"start_spawn">> \o @]
    /\ Goto(Caller(c), "set_lock")
    /\ UNCHANGED <<odom_pose, tracker_linear_offset, sensors, odom_tasking, odom_mutex,
                   task_locals, ret, history, events, chassis>>

\* start() without the odom_task == nullptr test of line 76
start_spawn_unguarded(c) ==
    /\ pc[Caller(c)] = "start_spawn"
    /\ odom_task' = odom_tasks + 1
    /\ odom_tasks' = odom_tasks + 1
    /\ pc' = [pc EXCEPT ![Caller(c)] = "idle", ![OdomThread] = "sample"]
    /\ UNCHANGED <<odom_pose, tracker_linear_offset, sensors, odom_mutex, task_locals,
                   stk, loc, ret, history, events, chassis>>

\* lines 76-77: create the odometry task unless there is one
start_spawn(c) ==
    /\ pc[Caller(c)] = "start_spawn"
    /\ IF odom_task = nullptr
       THEN /\ odom_task' = odom_tasks + 1
            /\ odom_tasks' = odom_tasks + 1
            /\ pc' = [pc EXCEPT ![Caller(c)] = "idle", ![OdomThread] = "sample"]
       ELSE /\ Goto(Caller(c), "idle")
            /\ UNCHANGED odom_tasking
    /\ UNCHANGED <<odom_pose, tracker_linear_offset, sensors, odom_mutex, task_locals,
                   stk, loc, ret, history, events, chassis>>

\* ---------------------------------------------------- Odom::get, get_local
get_call(c) ==
    /\ Call(c, "get_lock")
    /\ UNCHANGED <<odom_pose, tracker_linear_offset, sensors, odom_tasking, odom_mutex,
                   task_locals, stk, loc, ret, history, chassis>>

\* get() adding the offset without rotating it by the heading
get_body_unrotated(th) ==
    /\ pc[th] = "get_body"
    /\ ret' = [ret EXCEPT ![th] = PosePlus(odom_pose, tracker_linear_offset)]
    /\ Goto(th, "get_unlock")
    /\ UNCHANGED <<odom_pose, tracker_linear_offset, sensors, odom_tasking, odom_mutex,
                   task_locals, stk, loc, history, events, chassis>>

\* line 83: return odom_pose + tracker_linear_offset.rotate(odom_pose.theta)
get_body(th) ==
    /\ pc[th] = "get_body"
    /\ ret' = [ret EXCEPT ![th] =
                  PosePlus(odom_pose, rotate(tracker_linear_offset, odom_pose.theta))]
    /\ Goto(th, "get_unlock")
    /\ UNCHANGED <<odom_pose, tracker_linear_offset, sensors, odom_tasking, odom_mutex,
                   task_locals, stk, loc, history, events, chassis>>

get_local_call(c) ==
    /\ Call(c, "get_local_lock")
    /\ UNCHANGED <<odom_pose, tracker_linear_offset, sensors, odom_tasking, odom_mutex,
                   task_locals, stk, loc, ret, history, chassis>>

\* line 88: return odom_pose
get_local_body(th) ==
    /\ pc[th] = "get_local_body"
    /\ ret' = [ret EXCEPT ![th] = odom_pose]
    /\ Goto(th, "get_local_unlock")
    /\ UNCHANGED <<odom_pose, tracker_linear_offset, sensors, odom_tasking, odom_mutex,
                   task_locals, stk, loc, history, events, chassis>>

\* --------------------------------------------------- Odom::set, set_local
set_call(c, p) ==
    /\ Call(c, "set_lock")
    /\ loc' = [loc EXCEPT ![Caller(c)] = p]
    /\ last_set' = IF isnan(p.x) \/ isnan(p.y) \/ isnan(p.theta)
                   THEN NoSet
                   ELSE [by |-> Caller(c), p |-> p]
    /\ UNCHANGED <<odom_pose, tracker_linear_offset, sensors, odom_tasking, odom_mutex,
                   task_locals, stk, ret, calib_failed, rotated, chassis>>

\* line 93: pose -= tracker_linear_offset.rotate(odom_pose.theta)
set_body(th) ==
    /\ pc[th] = "set_body"
    /\ loc' = [loc EXCEPT ![th] =
                  PoseMinus(loc[th], rotate(tracker_linear_offset, odom_pose.theta))]
    /\ Goto(th, "set_unlock")
    /\ UNCHANGED <<odom_pose, tracker_linear_offset, sensors, odom_tasking, odom_mutex,
                   task_locals, stk, ret, history, events, chassis>>

set_local_call(c, p) ==
    /\ Call(c, "set_local_lock")
    /\ loc' = [loc EXCEPT ![Caller(c)] = p]
    /\ last_set' = NoSet
    /\ UNCHANGED <<odom_pose, tracker_linear_offset, sensors, odom_tasking, odom_mutex,
                   task_locals, stk, ret, calib_failed, rotated, chassis>>

\* lines 100-102: an axis that is NaN takes the shared pose's value
merge(pose, shared) ==
    [x |-> IF isnan(pose.x) THEN shared.x ELSE pose.x,
     y |-> IF isnan(pose.y) THEN shared.y ELSE pose.y,
     theta |-> IF isnan(pose.theta) THEN shared.theta ELSE pose.theta]

\* lines 100-104: merge, imu.set(pose.theta), odom_pose = pose
set_local_body(th) ==
    /\ pc[th] = "set_local_body"
    /\ LET pose == merge(loc[th], odom_pose)
       IN /\ imu' = pose.theta
          /\ odom_pose' = pose
          /\ loc' = [loc EXCEPT ![th] = pose]
    /\ rotated' = FALSE
    /\ Goto(th, "set_local_unlock")
    /\ UNCHANGED <<tracker_linear_offset, x_tracker, y_tracker, odom_tasking, odom_mutex,
                   task_locals, stk, ret, calib_failed, last_set, events, chassis>>

\* ------------------------------------- Odom::set_x, set_y, set_theta, set_offset
\* set_x() without the lock_guard of line 108
set_x_call_unlocked(c, x) ==
    /\ Call(c, "set_x_body")
    /\ loc' = [loc EXCEPT ![Caller(c)] = [NoPose EXCEPT !.x = x]]
    /\ last_set' = NoSet
    /\ UNCHANGED <<odom_pose, tracker_linear_offset, sensors, odom_tasking, odom_mutex,
                   task_locals, stk, ret, calib_failed, rotated, chassis>>

set_x_call(c, x) ==
    /\ Call(c, "set_x_lock")
    /\ loc' = [loc EXCEPT ![Caller(c)] = [NoPose EXCEPT !.x = x]]
    /\ last_set' = NoSet
    /\ UNCHANGED <<odom_pose, tracker_linear_offset, sensors, odom_tasking, odom_mutex,
                   task_locals, stk, ret, calib_failed, rotated, chassis>>

\* line 109: odom_pose.x = x
set_x_body(th) ==
    /\ pc[th] = "set_x_body"
    /\ odom_pose' = [odom_pose EXCEPT !.x = loc[th].x]
    /\ Goto(th, "set_x_unlock")
    /\ UNCHANGED <<tracker_linear_offset, sensors, odom_tasking, odom_mutex, task_locals,
                   stk, loc, ret, history, events, chassis>>

set_y_call(c, y) ==
    /\ Call(c, "set_y_lock")
    /\ loc' = [loc EXCEPT ![Caller(c)] = [NoPose EXCEPT !.y = y]]
    /\ last_set' = NoSet
    /\ UNCHANGED <<odom_pose, tracker_linear_offset, sensors, odom_tasking, odom_mutex,
                   task_locals, stk, ret, calib_failed, rotated, chassis>>

\* line 114: odom_pose.y = y
set_y_body(th) ==
    /\ pc[th] = "set_y_body"
    /\ odom_pose' = [odom_pose EXCEPT !.y = loc[th].y]
    /\ Goto(th, "set_y_unlock")
    /\ UNCHANGED <<tracker_linear_offset, sensors, odom_tasking, odom_mutex, task_locals,
                   stk, loc, ret, history, events, chassis>>

set_theta_call(c, theta) ==
    /\ Call(c, "set_theta_lock")
    /\ loc' = [loc EXCEPT ![Caller(c)] = [NoPose EXCEPT !.theta = theta]]
    /\ last_set' = NoSet
    /\ UNCHANGED <<odom_pose, tracker_linear_offset, sensors, odom_tasking, odom_mutex,
                   task_locals, stk, ret, calib_failed, rotated, chassis>>

\* lines 119-120: imu.set(theta), odom_pose.theta = theta
set_theta_body(th) ==
    /\ pc[th] = "set_theta_body"
    /\ imu' = loc[th].theta
    /\ odom_pose' = [odom_pose EXCEPT !.theta = loc[th].theta]
    /\ rotated' = FALSE
    /\ Goto(th, "set_theta_unlock")
    /\ UNCHANGED <<tracker_linear_offset, x_tracker, y_tracker, odom_tasking, odom_mutex,
                   task_locals, stk, loc, ret, calib_failed, last_set, events, chassis>>

set_offset_call(c, linear) ==
    /\ Call(c, "set_offset_lock")
    /\ loc' = [loc EXCEPT ![Caller(c)] = [x |-> linear.x, y |-> linear.y, theta |-> NaN]]
    /\ last_set' = NoSet
    /\ UNCHANGED <<odom_pose, tracker_linear_offset, sensors, odom_tasking, odom_mutex,
                   task_locals, stk, ret, calib_failed, rotated, chassis>>

\* line 128: tracker_linear_offset = linear
set_offset_body(th) ==
    /\ pc[th] = "set_offset_body"
    /\ tracker_linear_offset' = [x |-> loc[th].x, y |-> loc[th].y]
    /\ Goto(th, "set_offset_unlock")
    /\ UNCHANGED <<odom_pose, sensors, odom_tasking, odom_mutex, task_locals, stk, loc,
                   ret, history, events, chassis>>

\* ------------------------------------------------------------- the robot
\* the robot travels: a tracking wheel advances by one unit
Drive ==
    /\ events < MaxEvents
    /\ events' = events + 1
    /\ \/ x_tracker' = x_tracker + Unit /\ UNCHANGED y_tracker
       \/ y_tracker' = y_tracker + Unit /\ UNCHANGED x_tracker
    /\ UNCHANGED <<odom_pose, tracker_linear_offset, imu, odom_tasking, odom_mutex,
                   task_locals, pc, stk, loc, ret, history, chassis>>

\* the robot rotates: the heading sensor reads a quarter turn more or less
Rotate ==
    /\ events < MaxEvents
    /\ events' = events + 1
    /\ \E d \in {-1, 1} : imu' = fadd(imu, d)
    /\ rotated' = TRUE
    /\ UNCHANGED <<odom_pose, tracker_linear_offset, x_tracker, y_tracker, odom_tasking,
                   odom_mutex, task_locals, pc, stk, loc, ret, calib_failed, last_set,
                   chassis>>

\* ================================================================ Chassis
\* ----------------------------------------------------------------- helpers
\* integer division that truncates towards zero, as C++ does
tdiv(a, b) == IF a >= 0 THEN a \div b ELSE -((-a) \div b)

\* std::fmod: the remainder has the sign of the dividend
fmod(a, b) == a - b * tdiv(a, b)

\* to_rad: degrees to radians
to_rad(deg) == tdiv(deg * M_PI, 180)

\* limit(value, max): the value with its magnitude clamped to max
limit(v, max) == IF v > max THEN max ELSE IF v < -max THEN -max ELSE v

\* Pose::dist(Point): the distance from the pose to the point
dist(pose, p) ==
    LET dx == abs(p.x - pose.x)
        dy == abs(p.y - pose.y)
    IN IF dy = 0 THEN dx
       ELSE IF dx = 0 THEN dy
       ELSE CHOOSE r \in 0..(dx + dy) : r * r <= dx * dx + dy * dy
                                        /\ (r + 1) * (r + 1) > dx * dx + dy * dy

\* Pose::angle(Point): the bearing from the pose to the point, to the quarter turn
angle(pose, p) ==
    LET dx == p.x - pose.x
        dy == p.y - pose.y
        atan2 == IF abs(dx) >= abs(dy)
                 THEN (IF dx >= 0 THEN 0 ELSE M_PI)
                 ELSE (IF dy > 0 THEN M_PI_2 ELSE -M_PI_2)
    IN atan2 - pose.theta

\* PID::update of a controller whose integral and derivative gains are zero
PID_update(kP, error) == kP * error

\* ------------------------------------------------------------------ inputs
\* MoveConfig, TurnConfig and the default Options the Chassis is constructed with
move_config == [exit |-> Unit, speed |-> 100, lin_kP |-> 50, ang_kP |-> 50]

turn_config == [exit |-> 1, speed |-> 100, ang_kP |-> 50]

df_options == [dir |-> "AUTO", turn |-> "AUTO", accel |-> 5000, thru |-> FALSE,
               relative |-> FALSE]

\* the second target lies two units ahead of the initial pose
MoveTargets == {[x |-> 0, y |-> 0], [x |-> 2 * Unit, y |-> 0]}

\* in degrees
TurnTargets == {0, 90}

TankArgs == {[left |-> 50, right |-> 50]}

\* the Options a caller passes to move() and turn(): a direction or a sense of
\* rotation, with and without an acceleration limit
MoveOpts ==
    {[df_options EXCEPT !.dir = d, !.accel = a] :
        d \in {"AUTO", "FORWARD", "REVERSE"}, a \in {0, 5000}}

TurnOpts ==
    {[df_options EXCEPT !.turn = t, !.accel = a] :
        t \in {"AUTO", "CW", "CCW"}, a \in {0, 5000}}

\* targets on the spot, two units ahead and two units behind
ControlTargets == MoveTargets \cup {[x |-> -2 * Unit, y |-> 0]}

\* a heading a quarter turn to the right, for odom.set_theta()
ControlThetas == {-1}

\* full speed ahead, for tank()
ControlTank == {[left |-> 100, right |-> 100]}

\* the threads that can run Chassis code
ChassisThreads == CallerThreads \cup MotionThreads

\* ---------------------------------------------------------- control maths
\* chassis.cpp lines 178-190: the error of a move and its direction
MoveError(pose, target, dir) ==
    LET e == [linear |-> dist(pose, target), angular |-> angle(pose, target)]
        d == IF dir = "AUTO"
             THEN (IF abs(e.angular) > M_PI_2 THEN "REVERSE" ELSE "FORWARD")
             ELSE dir
    IN IF d = "REVERSE"
       THEN [linear |-> -e.linear,
             angular |-> e.angular + (IF e.angular > 0 THEN -M_PI ELSE M_PI)]
       ELSE e

\* lines 204-211: each wheel above max_speed is set to max_speed and the other
\* multiplied by max_speed / (the wheel just set)
ScaleSpeeds(speeds, max_speed) ==
    LET s == IF speeds.left > max_speed
             THEN [left |-> max_speed, right |-> tdiv(speeds.right * max_speed, max_speed)]
             ELSE speeds
    IN IF s.right > max_speed
       THEN [left |-> tdiv(s.left * max_speed, max_speed), right |-> max_speed]
       ELSE s

\* lines 214-219: the acceleration limit
LimitAccel(speeds, prev, accel_step) ==
    IF accel_step # 0
    THEN [left |-> IF speeds.left - prev.left > accel_step
                   THEN prev.left + accel_step
                   ELSE speeds.left,
          right |-> IF speeds.right - prev.right > accel_step
                    THEN prev.right + accel_step
                    ELSE speeds.right]
    ELSE speeds

\* lines 193-201: PID outputs, their limits and the wheel speeds they give
MoveWheels(error, opts) ==
    LET max_speed == move_config.speed
        lin_speed == limit(IF opts.thru
                           THEN max_speed
                           ELSE tdiv(PID_update(move_config.lin_kP, error.linear), Unit),
                           max_speed)
        ang_speed == limit(PID_update(move_config.ang_kP, error.angular), max_speed)
    IN [left |-> lin_speed - ang_speed, right |-> lin_speed + ang_speed]

\* lines 193-219: the wheel speeds of a move
MoveSpeeds(error, prev, opts) ==
    LimitAccel(ScaleSpeeds(MoveWheels(error, opts), move_config.speed), prev,
               tdiv(opts.accel * 10, 1000))

\* lines 296-302: the error of a turn
TurnError(heading, target, turn_dir) ==
    LET e == fmod(target - heading, M_PI)
    IN IF turn_dir = "CW" /\ e < 0 THEN e + 2 * M_PI
       ELSE IF turn_dir = "CCW" /\ e > 0 THEN e - 2 * M_PI
       ELSE e

\* lines 305-319: the wheel speeds of a turn
TurnSpeeds(error, prev, opts) ==
    LET max_speed == turn_config.speed
        ang_speed == limit(IF opts.thru
                           THEN (IF error > 0 THEN max_speed ELSE -max_speed)
                           ELSE PID_update(turn_config.ang_kP, error),
                           max_speed)
        speeds == [left |-> -ang_speed, right |-> ang_speed]
    IN LimitAccel(speeds, prev, tdiv(opts.accel * 10, 1000))

\* lines 215-218, 315-318: what a loop that reads prev_speeds without chassis_mutex
\* can see: the pair as it is or, while another thread is writing it in tank(), a
\* pair with one wheel of the old and one of the new
PrevSpeedsSeen(th) ==
    {prev_speeds} \cup
    UNION {{[left |-> mv[o].speeds.left, right |-> prev_speeds.right],
            [left |-> prev_speeds.left, right |-> mv[o].speeds.right]} :
           o \in {w \in ChassisThreads \ {th} : pc[w] = "tank_body"}}

\* ------------------------------------------------------ tasks and handles
\* the task handle is usable: it points at a pros::Task that has not been deleted
Valid(t) == t \in MotionIds /\ t \notin deleted

\* the motion task has been created and has neither returned nor been removed
Alive(t) == pc[Motion(t)] \notin {"unborn", "done", "removed"}

\* pros::Task::remove: the task stops where it is and never runs again; nothing it
\* holds is released
Removed(t) ==
    IF pc[Motion(t)] \in {"unborn", "done"} THEN pc ELSE [pc EXCEPT ![Motion(t)] = "removed"]

\* chassis_task->remove(); delete chassis_task;  by th, which goes on at next.
\* On a handle that is null or already deleted this is undefined behaviour: the
\* thread faults or goes on
cancel(th, next) ==
    IF Valid(chassis_task)
    THEN /\ pc' = [Removed(chassis_task) EXCEPT ![th] = next]
         /\ deleted' = deleted \cup {chassis_task}
         /\ stk' = [stk EXCEPT ![Motion(chassis_task)] = <<>>]
         /\ ret' = [ret EXCEPT ![Motion(chassis_task)] = NoPose]
         /\ mv' = [mv EXCEPT ![Motion(chassis_task)] = NoMotion]
         /\ UNCHANGED uaf
    ELSE /\ \E fault \in BOOLEAN : Goto(th, IF fault THEN "fault" ELSE next)
         /\ uaf' = TRUE
         /\ UNCHANGED <<deleted, stk, ret, mv>>

\* the function a task or a synchronous call runs has returned
EndMotion(th) ==
    /\ Goto(th, IF th \in MotionThreads THEN "done" ELSE "idle")
    /\ mv' = [mv EXCEPT ![th] = NoMotion]

\* ----------------------------------------------------------- Chassis::move
move_call(c, target, async, timed, opts) ==
    /\ Call(c, "move_cancel")
    /\ mv' = [mv EXCEPT ![Caller(c)] =
                 [NoMotion EXCEPT !.motion = "move", !.target = target,
                                  !.async = async, !.timed = timed, !.opts = opts]]
    /\ UNCHANGED <<odometry, odom_mutex, stk, loc, ret, chassis_tasking, chassis_mutex,
                   prev_speeds, motors>>

\* lines 236-239: stop the task if the robot is already moving
move_cancel(th) ==
    /\ pc[th] = "move_cancel"
    /\ IF chassis_task # nullptr
       THEN cancel(th, "move_start")
       ELSE Goto(th, "move_start") /\ UNCHANGED <<deleted, uaf, stk, ret, mv>>
    /\ UNCHANGED <<odometry, odom_mutex, loc, chassis_task, chassis_tasks, chassis_mutex,
                   prev_speeds, motors, events>>

\* lines 242-247: run move_task in a new task, or on the caller
move_start(th) ==
    /\ pc[th] = "move_start"
    /\ IF mv[th].async
       THEN /\ chassis_task' = chassis_tasks + 1
            /\ chassis_tasks' = chassis_tasks + 1
            /\ pc' = [pc EXCEPT ![th] = "idle", ![Motion(chassis_tasks + 1)] = "move_task"]
            /\ mv' = [mv EXCEPT ![th] = NoMotion, ![Motion(chassis_tasks + 1)] = mv[th]]
       ELSE /\ Goto(th, "move_task")
            /\ UNCHANGED <<chassis_task, chassis_tasks, mv>>
    /\ UNCHANGED <<odometry, odom_mutex, stk, loc, ret, deleted, uaf, chassis_mutex,
                   prev_speeds, motors, events>>

\* ------------------------------------------------------ Chassis::move_task
\* lines 138-154: resolve the options, read the pose
move_task(th) ==
    /\ pc[th] = "move_task"
    /\ stk' = [stk EXCEPT ![th] = <<"move_reset">> \o @]
    /\ Goto(th, "get_lock")
    /\ UNCHANGED <<odometry, odom_mutex, loc, ret, chassis, events>>

\* lines 155-171: the initial error seeds the PIDs; a relative target is resolved
move_reset(th) ==
    /\ pc[th] = "move_reset"
    /\ mv' = [mv EXCEPT ![th].error =
                 [linear |-> dist(ret[th], mv[th].target),
                  angular |-> angle(ret[th], mv[th].target)],
                        ![th].first = TRUE,
                        ![th].target =
                 IF mv[th].opts.relative
                 THEN [x |-> ret[th].x + rotate(@, ret[th].theta).x,
                       y |-> ret[th].y + rotate(@, ret[th].theta).y]
                 ELSE @]
    /\ ret' = [ret EXCEPT ![th] = NoPose]
    /\ Goto(th, "move_loop")
    /\ UNCHANGED <<odometry, odom_mutex, stk, loc, chassis_tasking, chassis_mutex,
                   prev_speeds, motors, events>>

\* line 176: pose = odom.get()
move_loop(th) ==
    /\ pc[th] = "move_loop"
    /\ stk' = [stk EXCEPT ![th] = <<"move_control">> \o @]
    /\ Goto(th, "get_lock")
    /\ UNCHANGED <<odometry, odom_mutex, loc, ret, chassis, events>>

\* lines 178-222: error, direction, PID, limits, wheel speeds; prev_speeds is read
\* without chassis_mutex; then tank(speeds)
move_control(th) ==
    /\ pc[th] = "move_control"
    /\ \E prev \in PrevSpeedsSeen(th) :
          LET error == MoveError(ret[th], mv[th].target, mv[th].opts.dir)
          IN /\ mv' = [mv EXCEPT ![th].error = error, ![th].first = FALSE,
                                 ![th].speeds = MoveSpeeds(error, prev, mv[th].opts)]
             /\ stk' = [stk EXCEPT ![th] = <<"move_exit">> \o @]
    /\ ret' = [ret EXCEPT ![th] = NoPose]
    /\ Goto(th, "tank")
    /\ UNCHANGED <<odometry, odom_mutex, loc, chassis_tasking, chassis_mutex,
                   prev_speeds, motors, events>>

\* lines 225-229: leave the loop on a timeout or within the tolerance, else sleep
\* until the next period
move_exit(th) ==
    /\ pc[th] = "move_exit"
    /\ \E expired \in {FALSE, mv[th].timed} :
          IF expired \/ mv[th].error.linear < move_config.exit
          THEN Goto(th, "move_stop")
          ELSE Goto(th, "move_loop")
    /\ UNCHANGED <<odometry, odom_mutex, stk, loc, ret, chassis, events>>

\* line 231: stop(false)
move_stop(th) ==
    /\ pc[th] = "move_stop"
    /\ stk' = [stk EXCEPT ![th] = <<"move_end">> \o @]
    /\ Goto(th, "stop_tank")
    /\ UNCHANGED <<odometry, odom_mutex, loc, ret, chassis, events>>

\* line 232: move_task returns
move_end(th) ==
    /\ pc[th] = "move_end"
    /\ EndMotion(th)
    /\ UNCHANGED <<odometry, odom_mutex, stk, loc, ret, chassis_tasking, chassis_mutex,
                   prev_speeds, motors, events>>

\* ----------------------------------------------------------- Chassis::turn
turn_call(c, target, async, timed, opts) ==
    /\ Call(c, "turn_cancel")
    /\ mv' = [mv EXCEPT ![Caller(c)] =
                 [NoMotion EXCEPT !.motion = "turn", !.target = target,
                                  !.async = async, !.timed = timed, !.opts = opts]]
    /\ UNCHANGED <<odometry, odom_mutex, stk, loc, ret, chassis_tasking, chassis_mutex,
                   prev_speeds, motors>>

\* lines 336-339: stop the task if the robot is already moving
turn_cancel(th) ==
    /\ pc[th] = "turn_cancel"
    /\ IF chassis_task # nullptr
       THEN cancel(th, "turn_start")
       ELSE Goto(th, "turn_start") /\ UNCHANGED <<deleted, uaf, stk, ret, mv>>
    /\ UNCHANGED <<odometry, odom_mutex, loc, chassis_task, chassis_tasks, chassis_mutex,
                   prev_speeds, motors, events>>

\* lines 342-350: convert to radians; run turn_task in a new task, or on the caller
turn_start(th) ==
    /\ pc[th] = "turn_start"
    /\ LET m == [mv[th] EXCEPT !.target = to_rad(@)]
       IN IF mv[th].async
          THEN /\ chassis_task' = chassis_tasks + 1
               /\ chassis_tasks' = chassis_tasks + 1
               /\ pc' = [pc EXCEPT ![th] = "idle",
                                   ![Motion(chassis_tasks + 1)] = "turn_task"]
               /\ mv' = [mv EXCEPT ![th] = NoMotion, ![Motion(chassis_tasks + 1)] = m]
          ELSE /\ Goto(th, "turn_task")
               /\ mv' = [mv EXCEPT ![th] = m]
               /\ UNCHANGED <<chassis_task, chassis_tasks>>
    /\ UNCHANGED <<odometry, odom_mutex, stk, loc, ret, deleted, uaf, chassis_mutex,
                   prev_speeds, motors, events>>

\* ------------------------------------------------------ Chassis::turn_task
\* lines 257-272: resolve the options, read the heading
turn_task(th) ==
    /\ pc[th] = "turn_task"
    /\ stk' = [stk EXCEPT ![th] = <<"turn_reset">> \o @]
    /\ Goto(th, "get_lock")
    /\ UNCHANGED <<odometry, odom_mutex, loc, ret, chassis, events>>

\* lines 273-289: the initial error seeds the PID; a relative or reversed target is
\* resolved
turn_reset(th) ==
    /\ pc[th] = "turn_reset"
    /\ LET heading == ret[th].theta
           relative == IF mv[th].opts.relative
                       THEN mv[th].target + heading
                       ELSE mv[th].target
       IN mv' = [mv EXCEPT ![th].error = [linear |-> 0, angular |-> heading - mv[th].target],
                           ![th].first = TRUE,
                           ![th].target =
                    IF mv[th].opts.dir = "REVERSE" THEN relative + M_PI ELSE relative]
    /\ ret' = [ret EXCEPT ![th] = NoPose]
    /\ Goto(th, "turn_loop")
    /\ UNCHANGED <<odometry, odom_mutex, stk, loc, chassis_tasking, chassis_mutex,
                   prev_speeds, motors, events>>

\* line 294: heading = odom.get().theta
turn_loop(th) ==
    /\ pc[th] = "turn_loop"
    /\ stk' = [stk EXCEPT ![th] = <<"turn_control">> \o @]
    /\ Goto(th, "get_lock")
    /\ UNCHANGED <<odometry, odom_mutex, loc, ret, chassis, events>>

\* lines 296-322: error, sense of rotation, PID, limit, wheel speeds; prev_speeds is
\* read without chassis_mutex; then tank(speeds)
turn_control(th) ==
    /\ pc[th] = "turn_control"
    /\ \E prev \in PrevSpeedsSeen(th) :
          LET error == TurnError(ret[th].theta, mv[th].target, mv[th].opts.turn)
          IN /\ mv' = [mv EXCEPT ![th].error = [linear |-> 0, angular |-> error],
                                 ![th].first = FALSE,
                                 ![th].speeds = TurnSpeeds(error, prev, mv[th].opts)]
             /\ stk' = [stk EXCEPT ![th] = <<"turn_exit">> \o @]
    /\ ret' = [ret EXCEPT ![th] = NoPose]
    /\ Goto(th, "tank")
    /\ UNCHANGED <<odometry, odom_mutex, loc, chassis_tasking, chassis_mutex,
                   prev_speeds, motors, events>>

\* lines 325-329: leave the loop on a timeout or within the tolerance, else sleep
\* until the next period
turn_exit(th) ==
    /\ pc[th] = "turn_exit"
    /\ \E expired \in {FALSE, mv[th].timed} :
          IF expired \/ mv[th].error.angular < turn_config.exit
          THEN Goto(th, "turn_stop")
          ELSE Goto(th, "turn_loop")
    /\ UNCHANGED <<odometry, odom_mutex, stk, loc, ret, chassis, events>>

\* line 331: stop(false)
turn_stop(th) ==
    /\ pc[th] = "turn_stop"
    /\ stk' = [stk EXCEPT ![th] = <<"turn_end">> \o @]
    /\ Goto(th, "stop_tank")
    /\ UNCHANGED <<odometry, odom_mutex, loc, ret, chassis, events>>

\* line 332: turn_task returns
turn_end(th) ==
    /\ pc[th] = "turn_end"
    /\ EndMotion(th)
    /\ UNCHANGED <<odometry, odom_mutex, stk, loc, ret, chassis_tasking, chassis_mutex,
                   prev_speeds, motors, events>>

\* ----------------------------------------------------------- Chassis::stop
\* line 387: stop(stop_task) tests stop_task && chassis_task
stop_call(c, stop_task) ==
    /\ Call(c, IF stop_task /\ chassis_task # nullptr THEN "stop_cancel" ELSE "stop_tank")
    /\ UNCHANGED <<odometry, odom_mutex, stk, loc, ret, chassis>>

\* lines 388-390: remove and delete the task, clear the handle
stop_cancel(th) ==
    /\ pc[th] = "stop_cancel"
    /\ cancel(th, "stop_tank")
    /\ chassis_task' = nullptr
    /\ UNCHANGED <<odometry, odom_mutex, loc, chassis_tasks, chassis_mutex, prev_speeds,
                   motors, events>>

\* line 392: tank(0, 0)
stop_tank(th) ==
    /\ pc[th] = "stop_tank"
    /\ mv' = [mv EXCEPT ![th].speeds = NoSpeeds]
    /\ Goto(th, "tank")
    /\ UNCHANGED <<odometry, odom_mutex, stk, loc, ret, chassis_tasking, chassis_mutex,
                   prev_speeds, motors, events>>

\* ----------------------------------------------------------- Chassis::tank
tank_call(c, speeds) ==
    /\ Call(c, "tank")
    /\ mv' = [mv EXCEPT ![Caller(c)].speeds = speeds]
    /\ UNCHANGED <<odometry, odom_mutex, stk, loc, ret, chassis_tasking, chassis_mutex,
                   prev_speeds, motors>>

\* lines 360-361: command the motors
tank_motors(th) ==
    /\ pc[th] = "tank"
    /\ motors' = mv[th].speeds
    /\ Goto(th, "tank_lock")
    /\ UNCHANGED <<odometry, odom_mutex, stk, loc, ret, chassis_tasking, chassis_mutex,
                   prev_speeds, mv, events>>

\* line 362: std::lock_guard constructor on chassis_mutex
chassis_mutex_take(th) ==
    /\ pc[th] = "tank_lock"
    /\ chassis_mutex = Free
    /\ chassis_mutex' = th
    /\ Goto(th, "tank_body")
    /\ UNCHANGED <<odometry, odom_mutex, stk, loc, ret, chassis_tasking, prev_speeds,
                   motors, mv, events>>

\* line 363: record the command as prev_speeds
tank_body(th) ==
    /\ pc[th] = "tank_body"
    /\ prev_speeds' = mv[th].speeds
    /\ Goto(th, "tank_unlock")
    /\ UNCHANGED <<odometry, odom_mutex, stk, loc, ret, chassis_tasking, chassis_mutex,
                   motors, mv, events>>

\* line 364: std::lock_guard destructor on chassis_mutex; tank returns
chassis_mutex_give(th) ==
    /\ pc[th] = "tank_unlock"
    /\ chassis_mutex = th
    /\ chassis_mutex' = Free
    /\ Return(th)
    /\ mv' = [mv EXCEPT ![th] = IF stk[th] = <<>> THEN NoMotion ELSE @]
    /\ UNCHANGED <<odometry, odom_mutex, chassis_tasking, prev_speeds, motors, events>>

\* ----------------------------------------------------------- Chassis::wait
wait_call(c) ==
    /\ Call(c, "wait")
    /\ UNCHANGED <<odometry, odom_mutex, stk, loc, ret, chassis>>

\* lines 132-134: the body is empty
wait_return(th) ==
    /\ pc[th] = "wait"
    /\ Return(th)
    /\ UNCHANGED <<odometry, odom_mutex, chassis, events>>

\* ============================================ the older library: dom::Chassis
\* the default options of dom.cpp lines 151-165; the angular gain of 100 per radian
\* is 157 per quarter turn
df_move_opts == [exit |-> Unit, speed |-> 100, lin_kP |-> 10, ang_kP |-> 157, dir |-> "AUTO"]

\* the third target lies two units behind the initial pose
DomTargets == ControlTargets

\* dom.cpp lines 189-197: the error of a move and its direction
DomMoveError(pose, target, dir) ==
    LET e == [linear |-> dist(pose, target), angular |-> angle(pose, target)]
        d == IF dir = "AUTO"
             THEN (IF abs(e.angular) > M_PI_2 THEN "REVERSE" ELSE "FORWARD")
             ELSE dir
    IN IF d = "REVERSE" THEN [linear |-> e.linear, angular |-> M_PI - e.angular] ELSE e

\* dom.cpp lines 213-219: the wheel above speed is set to speed and the other
\* multiplied by speed / (the wheel just set)
DomScaleSpeeds(speeds, speed) ==
    IF speeds.left > speed
    THEN [left |-> speed, right |-> tdiv(speeds.right * speed, speed)]
    ELSE IF speeds.right > speed
    THEN [left |-> tdiv(speeds.left * speed, speed), right |-> speed]
    ELSE speeds

\* dom.cpp lines 200-219: the wheel speeds of a move
DomMoveSpeeds(error) ==
    LET speed == df_move_opts.speed
        lin_speed == limit(tdiv(PID_update(df_move_opts.lin_kP, error.linear), Unit), speed)
        ang_speed == limit(PID_update(df_move_opts.ang_kP, error.angular), speed)
    IN DomScaleSpeeds([left |-> lin_speed - ang_speed, right |-> lin_speed + ang_speed],
                      speed)

\* dom.cpp line 232: move(target, opts)
dom_move_call(c, target, async, timed) ==
    /\ Call(c, "dom_move_cancel")
    /\ mv' = [mv EXCEPT ![Caller(c)] =
                 [NoMotion EXCEPT !.motion = "move", !.target = target,
                                  !.async = async, !.timed = timed]]
    /\ UNCHANGED <<odometry, odom_mutex, stk, loc, ret, chassis_tasking, chassis_mutex,
                   prev_speeds, motors>>

\* dom.cpp lines 234-236: remove the task if there is one; delete the handle (the
\* delete of a null handle does nothing)
dom_move_cancel(th) ==
    /\ pc[th] = "dom_move_cancel"
    /\ IF chassis_task # nullptr
       THEN cancel(th, "dom_move_start")
       ELSE Goto(th, "dom_move_start") /\ UNCHANGED <<deleted, uaf, stk, ret, mv>>
    /\ UNCHANGED <<odometry, odom_mutex, loc, chassis_task, chassis_tasks, chassis_mutex,
                   prev_speeds, motors, events>>

\* dom.cpp lines 239-244: run move_task in a new task; wait for it unless async
dom_move_start(th) ==
    /\ pc[th] = "dom_move_start"
    /\ chassis_task' = chassis_tasks + 1
    /\ chassis_tasks' = chassis_tasks + 1
    /\ pc' = [pc EXCEPT ![th] = IF mv[th].async THEN "idle" ELSE "dom_wait",
                        ![Motion(chassis_tasks + 1)] = "dom_move_task"]
    /\ mv' = [mv EXCEPT ![th] = NoMotion, ![Motion(chassis_tasks + 1)] = mv[th]]
    /\ UNCHANGED <<odometry, odom_mutex, stk, loc, ret, deleted, uaf, chassis_mutex,
                   prev_speeds, motors, events>>

\* dom.cpp lines 144-147: wait() joins the task
dom_wait(th) ==
    /\ pc[th] = "dom_wait"
    /\ chassis_task # nullptr => ~Valid(chassis_task) \/ ~Alive(chassis_task)
    /\ Return(th)
    /\ UNCHANGED <<odometry, odom_mutex, chassis, events>>

\* dom.cpp lines 151-167: resolve the options, read the pose
dom_move_task(th) ==
    /\ pc[th] = "dom_move_task"
    /\ stk' = [stk EXCEPT ![th] = <<"dom_move_reset">> \o @]
    /\ Goto(th, "get_lock")
    /\ UNCHANGED <<odometry, odom_mutex, loc, ret, chassis, events>>

\* dom.cpp lines 168-183: the initial errors seed the PIDs
dom_move_reset(th) ==
    /\ pc[th] = "dom_move_reset"
    /\ mv' = [mv EXCEPT ![th].error =
                 [linear |-> dist(ret[th], mv[th].target),
                  angular |-> angle(ret[th], mv[th].target)]]
    /\ ret' = [ret EXCEPT ![th] = NoPose]
    /\ Goto(th, "dom_move_test")
    /\ UNCHANGED <<odometry, odom_mutex, stk, loc, chassis_tasking, chassis_mutex,
                   prev_speeds, motors, events>>

\* dom.cpp line 186: while (lin_error > exit && (timeout != 0 && millis() - start_time
\* < timeout)); the body begins with pose = odom.get() (line 188)
dom_move_test(th) ==
    /\ pc[th] = "dom_move_test"
    /\ \E expired \in BOOLEAN :
          IF mv[th].error.linear > df_move_opts.exit /\ (mv[th].timed /\ ~expired)
          THEN /\ Goto(th, "get_lock")
               /\ stk' = [stk EXCEPT ![th] = <<"dom_move_control">> \o @]
          ELSE /\ Goto(th, "dom_move_end")
               /\ UNCHANGED stk
    /\ UNCHANGED <<odometry, odom_mutex, loc, ret, chassis, events>>

\* dom.cpp lines 189-219: errors, direction, PID, limits, wheel speeds
dom_move_control(th) ==
    /\ pc[th] = "dom_move_control"
    /\ LET error == DomMoveError(ret[th], mv[th].target, df_move_opts.dir)
       IN mv' = [mv EXCEPT ![th].error = error, ![th].speeds = DomMoveSpeeds(error)]
    /\ ret' = [ret EXCEPT ![th] = NoPose]
    /\ Goto(th, "dom_tank")
    /\ UNCHANGED <<odometry, odom_mutex, stk, loc, chassis_tasking, chassis_mutex,
                   prev_speeds, motors, events>>

\* dom.cpp lines 225-228, 260-263: tank() commands the motors; then the task sleeps
\* until the next period
dom_tank(th) ==
    /\ pc[th] = "dom_tank"
    /\ motors' = mv[th].speeds
    /\ Goto(th, "dom_move_test")
    /\ UNCHANGED <<odometry, odom_mutex, stk, loc, ret, chassis_tasking, chassis_mutex,
                   prev_speeds, mv, events>>

\* dom.cpp line 230: move_task returns
dom_move_end(th) ==
    /\ pc[th] = "dom_move_end"
    /\ EndMotion(th)
    /\ UNCHANGED <<odometry, odom_mutex, stk, loc, ret, chassis_tasking, chassis_mutex,
                   prev_speeds, motors, events>>

\* ------------------------------------------------------------ specification
OdomTick ==
    \/ odom_sample
    \/ odom_add
    \/ odom_theta
    \/ odom_debug
    \/ odom_delay

OdomCall(c) ==
    \/ start_call(c)
    \/ start_failed(c)
    \/ start_ok(c)
    \/ start_spawn(c)
    \/ get_call(c)
    \/ get_local_call(c)
    \/ \E p \in PoseArgs : set_call(c, p)
    \/ \E p \in PoseArgs : set_local_call(c, p)
    \/ \E x \in XArgs : set_x_call(c, x)
    \/ \E y \in YArgs : set_y_call(c, y)
    \/ \E theta \in ThetaArgs : set_theta_call(c, theta)
    \/ \E linear \in Offsets : set_offset_call(c, linear)

OdomStep(th) ==
    \/ odom_mutex_take(th)
    \/ odom_mutex_give(th)
    \/ get_body(th)
    \/ get_local_body(th)
    \/ set_body(th)
    \/ set_local_body(th)
    \/ set_x_body(th)
    \/ set_y_body(th)
    \/ set_theta_body(th)
    \/ set_offset_body(th)

Next ==
    \/ OdomTick
    \/ \E c \in OdomCallers : OdomCall(c)
    \/ \E th \in Threads : OdomStep(th)
    \/ Drive
    \/ Rotate

Spec == Init /\ [][Next]_vars

\* the motion executor on its own: the user threads command the chassis, the motion
\* tasks and synchronous motions read the pose through Odom::get
ChassisCall(c) ==
    \/ \E target \in MoveTargets, async \in BOOLEAN, timed \in BOOLEAN :
          move_call(c, target, async, timed, df_options)
    \/ \E target \in TurnTargets, async \in BOOLEAN, timed \in BOOLEAN :
          turn_call(c, target, async, timed, df_options)
    \/ \E stop_task \in BOOLEAN : stop_call(c, stop_task)
    \/ \E speeds \in TankArgs : tank_call(c, speeds)
    \/ wait_call(c)

ChassisStep(th) ==
    \/ move_cancel(th)
    \/ move_start(th)
    \/ move_task(th)
    \/ move_reset(th)
    \/ move_loop(th)
    \/ move_control(th)
    \/ move_exit(th)
    \/ move_stop(th)
    \/ move_end(th)
    \/ turn_cancel(th)
    \/ turn_start(th)
    \/ turn_task(th)
    \/ turn_reset(th)
    \/ turn_loop(th)
    \/ turn_control(th)
    \/ turn_exit(th)
    \/ turn_stop(th)
    \/ turn_end(th)
    \/ stop_cancel(th)
    \/ stop_tank(th)
    \/ tank_motors(th)
    \/ chassis_mutex_take(th)
    \/ tank_body(th)
    \/ chassis_mutex_give(th)
    \/ wait_return(th)
    \/ odom_mutex_take(th)
    \/ get_body(th)
    \/ odom_mutex_give(th)

NextChassis ==
    \/ \E c \in OdomCallers : ChassisCall(c)
    \/ \E th \in ChassisThreads : ChassisStep(th)

SpecChassis == Init /\ [][NextChassis]_vars

\* two user threads that both start moves without a timeout
MoveCall(c) ==
    \E target \in MoveTargets, async \in BOOLEAN :
       move_call(c, target, async, FALSE, df_options)

MoveStep(th) ==
    \/ move_cancel(th)
    \/ move_start(th)
    \/ move_task(th)
    \/ move_reset(th)
    \/ move_loop(th)
    \/ move_control(th)
    \/ move_exit(th)
    \/ move_stop(th)
    \/ move_end(th)
    \/ stop_tank(th)
    \/ tank_motors(th)
    \/ chassis_mutex_take(th)
    \/ tank_body(th)
    \/ chassis_mutex_give(th)
    \/ odom_mutex_take(th)
    \/ get_body(th)
    \/ odom_mutex_give(th)

NextCallers ==
    \/ \E c \in Callers : MoveCall(c)
    \/ \E th \in ChassisThreads : MoveStep(th)

SpecCallers == Init /\ [][NextCallers]_vars

\* the older library's motion executor: one user thread that starts moves
DomCall(c) ==
    \E target \in DomTargets, async \in BOOLEAN, timed \in BOOLEAN :
       dom_move_call(c, target, async, timed)

DomStep(th) ==
    \/ dom_move_cancel(th)
    \/ dom_move_start(th)
    \/ dom_wait(th)
    \/ dom_move_task(th)
    \/ dom_move_reset(th)
    \/ dom_move_test(th)
    \/ dom_move_control(th)
    \/ dom_tank(th)
    \/ dom_move_end(th)
    \/ odom_mutex_take(th)
    \/ get_body(th)
    \/ odom_mutex_give(th)

NextDom ==
    \/ \E c \in OdomCallers : DomCall(c)
    \/ \E th \in ChassisThreads : DomStep(th)

SpecDom == Init /\ [][NextDom]_vars

\* the control loops on their own: one user thread that sets the heading, drives the
\* wheels by hand and runs synchronous moves and turns with the Options it passes
ControlCall(c) ==
    \/ \E theta \in ControlThetas : set_theta_call(c, theta)
    \/ \E speeds \in ControlTank : tank_call(c, speeds)
    \/ \E target \in ControlTargets, timed \in BOOLEAN, opts \in MoveOpts :
          move_call(c, target, FALSE, timed, opts)
    \/ \E target \in TurnTargets, timed \in BOOLEAN, opts \in TurnOpts :
          turn_call(c, target, FALSE, timed, opts)

ControlStep(th) ==
    \/ set_theta_body(th)
    \/ move_cancel(th)
    \/ move_start(th)
    \/ move_task(th)
    \/ move_reset(th)
    \/ move_loop(th)
    \/ move_control(th)
    \/ move_exit(th)
    \/ move_stop(th)
    \/ move_end(th)
    \/ turn_cancel(th)
    \/ turn_start(th)
    \/ turn_task(th)
    \/ turn_reset(th)
    \/ turn_loop(th)
    \/ turn_control(th)
    \/ turn_exit(th)
    \/ turn_stop(th)
    \/ turn_end(th)
    \/ stop_tank(th)
    \/ tank_motors(th)
    \/ chassis_mutex_take(th)
    \/ tank_body(th)
    \/ chassis_mutex_give(th)
    \/ odom_mutex_take(th)
    \/ get_body(th)
    \/ odom_mutex_give(th)

NextControl ==
    \/ \E c \in OdomCallers : ControlCall(c)
    \/ \E th \in CallerThreads : ControlStep(th)

SpecControl == Init /\ [][NextControl]_vars

\* ------------------------------------------------------------------ claims
\* the step is one of thread th
StepOf(th) == pc'[th] # pc[th]

\* the user thread is inside start(): at one of its places, or in the set() it calls
InStart(c) ==
    \/ pc[Caller(c)] \in {"start_ok", "start_failed", "start_spawn"}
    \/ stk[Caller(c)] # <<>>

\* C4: a start() whose calibration fails returns at once, creating no task and
\* leaving the shared pose, the heading sensor and the task handle as they were; a
\* start() whose calibration succeeds ends with the odometry task created.
C4_FailedCalibrationLeavesUnstarted ==
    [][\A c \in Callers :
          /\ (pc[Caller(c)] = "start_failed" /\ StepOf(Caller(c)))
                => /\ pc'[Caller(c)] = "idle"
                   /\ pc'[OdomThread] = pc[OdomThread]
                   /\ UNCHANGED <<odom_pose, imu, odom_task, odom_tasks, odom_mutex, chassis>>
          /\ (pc[Caller(c)] = "start_spawn" /\ StepOf(Caller(c)))
                => /\ odom_task' # nullptr
                   /\ pc'[OdomThread] # "unborn"]_vars

\* C4 witness: after a failed calibration, a later start() has calibrated and set
\* the pose and is about to create the task that does not exist yet
C4_Witness ==
    \E c \in Callers :
        /\ calib_failed
        /\ pc[Caller(c)] = "start_spawn"
        /\ odom_task = nullptr

\* C5 as stated: no step of a start() made while the odometry task runs changes
\* the task handle, the number of tasks, the shared pose or the heading sensor.
C5_SecondStartIsNoOp ==
    [][\A c \in Callers :
          (InStart(c) /\ odom_task # nullptr /\ StepOf(Caller(c)))
              => UNCHANGED <<odom_task, odom_tasks, odom_pose, imu, chassis>>]_vars

\* C5 amended: a start() made while the odometry task runs creates no second task
\* and leaves the task handle alone, but its set({0, 0, 0}) re-seeds the heading
\* sensor to 0, sets the shared heading to 0 and overwrites the shared position
\* with the zero position less the rotated offset.
C5_SecondStartSpawnsNoTask ==
    [][\A c \in Callers :
          (InStart(c) /\ odom_task # nullptr /\ StepOf(Caller(c)))
              => /\ UNCHANGED <<odom_task, odom_tasks, chassis>>
                 /\ pc'[OdomThread] = pc[OdomThread]
                 /\ pc[Caller(c)] = "set_local_body"
                       => /\ imu' = 0
                          /\ odom_pose'.theta = 0
                          /\ odom_pose' = merge(loc[Caller(c)], odom_pose)]_vars

\* C5 witness: a second start() reaches the task test with the task running
C5_Witness ==
    \E c \in Callers :
        /\ pc[Caller(c)] = "start_spawn"
        /\ odom_task # nullptr

\* the places where a setter writes the shared pose
SetterPcs == {"set_local_body", "set_x_body", "set_y_body", "set_theta_body"}

\* C6 as stated: a setter's write leaves every axis whose argument is NaN as it was
\* and stores the argument on the others, and never brings a NaN into the pose.
C6_SettersMergeUnspecifiedAxes ==
    [][\A th \in Threads :
          (pc[th] \in SetterPcs /\ StepOf(th))
              => /\ odom_pose'.x = IF isnan(loc[th].x) THEN odom_pose.x ELSE loc[th].x
                 /\ odom_pose'.y = IF isnan(loc[th].y) THEN odom_pose.y ELSE loc[th].y
                 /\ odom_pose'.theta =
                        IF isnan(loc[th].theta) THEN odom_pose.theta ELSE loc[th].theta]_vars

\* C7 as stated: a get() that follows a set(p) of a fully specified pose, with no
\* tick or other call in between, returns p.
C7_SetGetRoundTrip ==
    \A c \in Callers :
        (pc[Caller(c)] = "get_unlock" /\ last_set.by = Caller(c))
            => ret[Caller(c)] = last_set.p

\* C8: what get() returns is what get_local() returns in the same state, plus the
\* current linear offset rotated by the current heading, the heading being the same;
\* and only set_offset changes the offset, to its argument.
C8_GetIsLocalPlusRotatedOffset ==
    /\ [](\A th \in Threads :
            /\ pc[th] = "get_local_unlock" => ret[th] = odom_pose
            /\ pc[th] = "get_unlock"
                  => LET o == rotate(tracker_linear_offset, odom_pose.theta)
                     IN /\ ret[th].x = fadd(odom_pose.x, o.x)
                        /\ ret[th].y = fadd(odom_pose.y, o.y)
                        /\ ret[th].theta = odom_pose.theta)
    /\ [][tracker_linear_offset' # tracker_linear_offset
             => \E th \in Threads :
                    /\ pc[th] = "set_offset_body"
                    /\ tracker_linear_offset' = [x |-> loc[th].x, y |-> loc[th].y]]_vars

\* C8 witness: a get() has read the pose at a heading of a quarter turn with a
\* nonzero offset that set_offset stored
C8_Witness ==
    \E c \in Callers :
        /\ pc[Caller(c)] = "get_unlock"
        /\ odom_pose.theta = 1
        /\ tracker_linear_offset.x = Unit

\* C9 as stated: the heading of the shared pose lies in (-M_PI, M_PI].
C9_HeadingCanonical ==
    isnan(odom_pose.theta) \/ (-M_PI < odom_pose.theta /\ odom_pose.theta <= M_PI)

\* C10: a thread that reads or writes the shared pose holds odom_mutex; the mutex
\* is held only from an access to the release that follows it, never while the
\* odometry task samples, prints or sleeps; and while the tick has added the
\* position but not yet stored the heading, no other thread is at an access.
C10_PoseAccessUnderMutex ==
    /\ \A th \in Threads : pc[th] \in BodyPcs => odom_mutex = th
    /\ \A th \in Threads : odom_mutex = th => pc[th] \in BodyPcs \cup UnlockPcs
    /\ pc[OdomThread] \in {"unborn", "sample", "take", "debug", "delay"}
          => odom_mutex # OdomThread
    /\ pc[OdomThread] = "theta"
          => \A th \in Threads \ {OdomThread} : pc[th] \notin BodyPcs

\* C10 witness: the tick is between its two writes while a user thread waits
C10_Witness ==
    \E c \in Callers :
        /\ pc[OdomThread] = "theta"
        /\ pc[Caller(c)] \in LockPcs

\* the places of the control loops of move_task and turn_task
LoopPcs == {"move_loop", "move_control", "move_exit", "turn_loop", "turn_control", "turn_exit"}

\* the thread runs a control loop: it is at one of its places, or in the get() or
\* tank() the loop has called
InLoop(th) ==
    \/ pc[th] \in LoopPcs
    \/ /\ pc[th] \notin {"removed", "fault"}
       /\ stk[th] # <<>>
       /\ stk[th][Len(stk[th])] \in LoopPcs

\* C1 as stated: at most one thread runs a motion control loop at any time.
C1_AtMostOneControlLoop ==
    \A a, b \in ChassisThreads : (InLoop(a) /\ InLoop(b)) => a = b

\* C2 as stated: a motion task that has been forcibly cancelled holds neither the
\* chassis mutex nor the odometry mutex, so both can still be acquired.
C2_CancelLeavesMutexesAcquirable ==
    \A t \in MotionIds :
        pc[Motion(t)] = "removed" => (chassis_mutex # Motion(t) /\ odom_mutex # Motion(t))

\* C3 as stated: wait() does not return while a motion task is still alive.
C3_WaitOutlastsMotion ==
    [][\A c \in Callers :
          (pc[Caller(c)] = "wait" /\ pc'[Caller(c)] # "wait")
              => \A t \in MotionIds : ~Alive(t)]_vars

\* the places where a thread reads or writes prev_speeds: the acceleration limiters
\* of the two loops and the assignment in tank()
PrevSpeedsPcs == {"move_control", "turn_control", "tank_body"}

\* C11 as stated: a thread that reads or writes prev_speeds holds chassis_mutex.
C11_PrevSpeedsUnderMutex ==
    \A th \in ChassisThreads : pc[th] \in PrevSpeedsPcs => chassis_mutex = th

\* the places where move_task and turn_task return, in either library
EndPcs == {"move_end", "turn_end", "dom_move_end"}

\* the thread is in the tank(0, 0) of the stop(false) that ends its motion
InFinalStop(th) == stk[th] # <<>> /\ Head(stk[th]) \in EndPcs

\* C12 as stated: a motion whose loop has ended returns only after a tank(0, 0):
\* the last command it gave the motors is zero on both wheels and the pair it
\* recorded as prev_speeds is (0, 0).
C12_NaturalExitCommandsZero ==
    /\ [](\A th \in ChassisThreads : pc[th] \in EndPcs => mv[th].speeds = NoSpeeds)
    /\ [][\A th \in ChassisThreads :
             /\ (pc[th] \in {"move_exit", "turn_exit"} /\ StepOf(th))
                   => pc'[th] \in {"move_loop", "turn_loop", "move_stop", "turn_stop",
                                   "removed"}
             /\ (InFinalStop(th) /\ pc[th] = "tank" /\ pc'[th] = "tank_lock")
                   => motors' = NoSpeeds
             /\ (InFinalStop(th) /\ pc[th] = "tank_body" /\ pc'[th] = "tank_unlock")
                   => prev_speeds' = NoSpeeds]_vars

\* the steps by which a motion leaves its control loop
LeavesLoop(th) ==
    \/ pc[th] = "move_exit" /\ pc'[th] = "move_stop"
    \/ pc[th] = "turn_exit" /\ pc'[th] = "turn_stop"
    \/ pc[th] = "dom_move_test" /\ pc'[th] = "dom_move_end"

\* the tolerance test of the loop the thread is in
InTolerance(th) ==
    CASE pc[th] = "move_exit" -> mv[th].error.linear < move_config.exit
      [] pc[th] = "turn_exit" -> mv[th].error.angular < turn_config.exit
      [] pc[th] = "dom_move_test" -> mv[th].error.linear <= df_move_opts.exit
      [] OTHER -> FALSE

\* C13 as stated: the timeout ends a loop only when timeout > 0: a motion with
\* timeout = 0 keeps running its control iterations and leaves its loop only on
\* the tolerance test, never because of time.
C13_DisabledTimeoutNeverEndsLoop ==
    [][\A th \in ChassisThreads :
          (LeavesLoop(th) /\ ~mv[th].timed) => InTolerance(th)]_vars

\* the thread is handing the wheel speeds of a tick of the loop that continues at
\* exit to tank()
InTick(th, exit) == pc[th] = "tank" /\ stk[th] # <<>> /\ Head(stk[th]) = exit

\* C14 as stated: a turn with an explicit sense of rotation never commands the
\* other sense: under CW no tick drives the right wheel faster than the left
\* (a counter-clockwise rotation), under CCW no tick drives the left wheel faster
\* than the right.
C14_ExplicitSenseIsObeyed ==
    \A th \in ChassisThreads :
       InTick(th, "turn_exit") =>
          /\ mv[th].opts.turn = "CW" => mv[th].speeds.right <= mv[th].speeds.left
          /\ mv[th].opts.turn = "CCW" => mv[th].speeds.left <= mv[th].speeds.right

\* the larger of two magnitudes
MaxAbs(a, b) == IF abs(a) >= abs(b) THEN abs(a) ELSE abs(b)

\* C15 as stated: when a wheel speed of a move exceeds max speed before clamping
\* and neither wheel speed is zero, the pair commanded (with no acceleration
\* limit) has the left/right ratio of the pair before clamping, to the rounding of
\* one division.
C15_RescalePreservesRatio ==
    \A th \in ChassisThreads :
       LET raw == MoveWheels(mv[th].error, mv[th].opts)
           cmd == mv[th].speeds
       IN (/\ InTick(th, "move_exit")
           /\ mv[th].opts.accel = 0
           /\ MaxAbs(raw.left, raw.right) > move_config.speed
           /\ raw.left # 0
           /\ raw.right # 0)
          => abs(cmd.left * raw.right - cmd.right * raw.left) < MaxAbs(raw.left, raw.right)

\* accel * dt / 1000 of the motion the thread runs (dt = 10 ms)
AccelStep(th) == tdiv(mv[th].opts.accel * 10, 1000)

\* C16 as stated: with accel > 0 each wheel speed a tick of a move or a turn
\* commands differs from the speed commanded before it (prev_speeds) by at most
\* accel * dt, for increases and decreases alike.
C16_SlewLimitsEveryChange ==
    \A th \in ChassisThreads :
       ((InTick(th, "move_exit") \/ InTick(th, "turn_exit")) /\ AccelStep(th) > 0)
          => /\ abs(mv[th].speeds.left - prev_speeds.left) <= AccelStep(th)
             /\ abs(mv[th].speeds.right - prev_speeds.right) <= AccelStep(th)

\* the pose odom.get() returns in the current state
CurrentPose == PosePlus(odom_pose, rotate(tracker_linear_offset, odom_pose.theta))

\* the thread has computed the errors of a tick of a move whose direction is AUTO,
\* in either library
InAutoTick(th) ==
    \/ InTick(th, "move_exit") /\ mv[th].opts.dir = "AUTO"
    \/ pc[th] = "dom_tank" /\ df_move_opts.dir = "AUTO"

\* C17 as stated: on a tick of a move with direction AUTO the errors fed to the
\* controllers are those of the tick's pose when the bearing of the target is at
\* most 90 degrees off the heading; beyond 90 degrees the linear error is negated
\* and the angular error fed has magnitude at most 90 degrees.
C17_AutoReversesPastQuarterTurn ==
    \A th \in ChassisThreads :
       LET raw == [linear |-> dist(CurrentPose, mv[th].target),
                   angular |-> angle(CurrentPose, mv[th].target)]
       IN InAutoTick(th) =>
             IF abs(raw.angular) > M_PI_2
             THEN /\ mv[th].error.linear = -raw.linear
                  /\ abs(mv[th].error.angular) <= M_PI_2
             ELSE mv[th].error = raw

\* C18 as stated: a move whose timeout cannot fire leaves its loop only when the
\* distance from the pose to the target is below the tolerance, whichever
\* direction is in effect.
C18_ToleranceExitIsByDistance ==
    [][\A th \in ChassisThreads :
          (pc[th] = "move_exit" /\ pc'[th] = "move_stop" /\ ~mv[th].timed)
             => dist(CurrentPose, mv[th].target) < move_config.exit]_vars

\* C19 as stated: at the first tick of a move or a turn the error each PID is
\* updated with is the error it was reset with (mv[th].error before the tick): the
\* angular error always, the linear error of a move unless thru replaces its PID.
C19_FirstUpdateMatchesReset ==
    [][\A th \in ChassisThreads :
          (pc[th] \in {"move_control", "turn_control"} /\ StepOf(th) /\ mv[th].first)
             => /\ ~mv[th].opts.thru => mv'[th].error.angular = mv[th].error.angular
                /\ (pc[th] = "move_control" /\ ~mv[th].opts.thru)
                      => mv'[th].error.linear = mv[th].error.linear]_vars

\* C20 as stated: the pair a tick of a move commands after clamping and
\* rescaling (with no acceleration limit after it) has each wheel speed within
\* max speed in magnitude, negative wheel speeds included.
C20_WheelsWithinMaxSpeed ==
    \A th \in ChassisThreads :
       /\ (InTick(th, "move_exit") /\ mv[th].opts.accel = 0)
             => MaxAbs(mv[th].speeds.left, mv[th].speeds.right) <= move_config.speed
       /\ pc[th] = "dom_tank"
             => MaxAbs(mv[th].speeds.left, mv[th].speeds.right) <= df_move_opts.speed

\* the places where a call tests the task handle and then removes and deletes it
CancelPcs == {"move_cancel", "turn_cancel", "stop_cancel", "dom_move_cancel"}

\* C21 as stated: a call that is about to remove() and delete the task it finds in
\* chassis_task finds a task that has not been deleted.
C21_NoRemoveOfDeletedHandle ==
    \A th \in ChassisThreads :
       (pc[th] \in CancelPcs /\ chassis_task # nullptr) => Valid(chassis_task)

\* C22 as stated: while the robot has not rotated since its heading was last set
\* (the heading sensor still reads the heading that was set), a get() by a user
\* thread, whose setters have all returned, returns that heading.
C22_SetHeadingSurvivesTick ==
    \A c \in Callers :
       (pc[Caller(c)] = "get_unlock" /\ ~rotated) => ret[Caller(c)].theta = imu

\* C23 as stated: while the robot has not rotated since its heading was last set,
\* a tick of the estimator takes the change of the encoders as it is (dtheta = 0,
\* no arc factor) and rotates it by the heading the sensor reads.
C23_ReseedLeavesDeltaUnscaled ==
    [][(pc[OdomThread] = "sample" /\ StepOf(OdomThread) /\ ~rotated /\ ~isnan(imu))
          => dtrack' = rotate([x |-> fsub(x_tracker, prev_track.x),
                               y |-> fsub(y_tracker, prev_track.y)],
                              fadd(imu, tracker_angular_offset))]_vars

\* how far the heading is from the target heading, modulo a full turn
HeadingOff(heading, target) ==
    LET d == (target - heading) % (2 * M_PI)
    IN IF d > M_PI THEN 2 * M_PI - d ELSE d

\* C24 as stated: a turn whose timeout cannot fire leaves its loop only when the
\* heading is within the tolerance of the target heading, modulo a full turn.
C24_TurnExitIsByHeading ==
    [][\A th \in ChassisThreads :
          (pc[th] = "turn_exit" /\ pc'[th] = "turn_stop" /\ ~mv[th].timed)
             => HeadingOff(CurrentPose.theta, mv[th].target) < turn_config.exit]_vars

====
